---- MODULE Spec2Model ----
(***************************************************************************)
(* The face-tracking relay of main_window.py and the packet decoder of     *)
(* open_see_data.py as a state machine.                                    *)
(*                                                                         *)
(* Two threads act on the state: the Qt main thread (the MainWindow slots, *)
(* each of which runs to completion) and the worker thread that executes   *)
(* FaceTrackingThread.run, one statement per step.  Signals emitted by the *)
(* worker are queued to the main thread.                                   *)
(*                                                                         *)
(* Angles are fixed-point integers in hundredths of a degree, dial values  *)
(* are tenths of a degree as in the source.  Widget labels and the         *)
(* read-only "current rotation" dials are display-only and not modelled.   *)
(***************************************************************************)
EXTENDS Integers, Sequences, FiniteSets, TLC

---------------------------------------------------------------------------
(* Program constants                                                       *)

PACKET_SIZE == 1785

NUMBER_OF_POINTS == 68

\* The model tiers of MODELS_WITH_DESCRIPTION, in list order.
MODELS_WITH_DESCRIPTION == <<-1, 0, 1, 2, 3>>

\* QDial.setMinimum / setMaximum of the three offset dials.
DIAL_MINIMUM == -900

DIAL_MAXIMUM == 900

---------------------------------------------------------------------------
(* Bounds of the model                                                     *)

\* Number of inputs from outside over the whole run: clicks on the
\* start/stop button, operations on dials, selectors and the capture button,
\* and datagrams sent to the receive socket.
MaxInputs == 5

\* Largest number of lines in the output of the camera enumeration.
MaxStdoutLines == 4

\* Largest absolute value, in whole degrees, of the Euler angle x of the
\* packets handed to the decoder on its own.
MaxEulerX == 400

---------------------------------------------------------------------------
(* Numbers                                                                 *)

\* n degrees in hundredths of a degree.
Deg(n) == n * 100

Min(a, b) == IF a < b THEN a ELSE b

Max(a, b) == IF a > b THEN a ELSE b

\* Python int(): truncation towards zero of a / d for d > 0.
TruncDiv(a, d) == IF a >= 0 THEN a \div d ELSE -((-a) \div d)

\* int(r * 10) for r in hundredths of a degree: tenths, truncated.
IntTimes10(r) == TruncDiv(r, 10)

\* float(new_value) / 10 for a dial value in tenths: hundredths of a degree.
DialToOffset(v) == v * 10

\* QDial.setValue clamps to [minimum, maximum].
ClampDial(v) == Max(DIAL_MINIMUM, Min(DIAL_MAXIMUM, v))

\* Python's None: an optional value is the empty sequence, or (where the
\* value is itself a list or a record) Some(value), a one-element sequence.
None == <<>>

Some(x) == <<x>>

\* None in a place that otherwise holds a string.
Nothing == "None"

---------------------------------------------------------------------------
(* Datagrams and buffers                                                   *)
(*                                                                         *)
(* A datagram is [id, len, euler]: id numbers the datagrams in order of    *)
(* arrival, len is its length in bytes, and euler is the triple that the   *)
(* three floats at its bytes 49..60 encode (None when it has no such       *)
(* bytes).  A buffer (bytes object) is the sequence of the chunks that     *)
(* were concatenated to build it.                                          *)

\* The raw Euler angles (hundredths of a degree) that the datagrams carry.
\* They derive to the rotation (5.05, -3.00, 100.00): a pitch that is no
\* whole number of tenths, a yaw that is one, a roll beyond the dial's range.
TrackedEuler == <<Deg(175) - 5, Deg(-3), Deg(190)>>

\* What the tracker, or any other sender, may put on the wire.
DatagramKinds ==
    { [len |-> 0,           euler |-> None],
      [len |-> 700,         euler |-> TrackedEuler],
      [len |-> 1085,        euler |-> TrackedEuler],
      [len |-> PACKET_SIZE, euler |-> TrackedEuler] }

RECURSIVE BufLen(_)
\* len(buf)
BufLen(buf) == IF buf = <<>> THEN 0 ELSE Head(buf).len + BufLen(Tail(buf))

RECURSIVE ChunkIds(_)
\* The datagrams whose bytes are part of buf.
ChunkIds(buf) == IF buf = <<>> THEN {} ELSE {Head(buf).id} \cup ChunkIds(Tail(buf))

\* sock.recvfrom(bufsize) on a datagram socket: the first bufsize bytes of
\* the datagram, the rest of it is lost.
RecvFrom(d, bufsize) == [d EXCEPT !.len = Min(d.len, bufsize)]

---------------------------------------------------------------------------
(* open_see_data.parse_open_see_data                                       *)

\* The sizes of the successive struct.unpack_from reads, in the order of the
\* code: "d", "i", "ff", "f", "f", "?", "f", "ffff", "fff", "fff", then the
\* three loops and the 14 feature floats.
ReadSizes ==
    <<8, 4, 8, 4, 4, 1, 4, 16, 12, 12>>
    \o [i \in 1..NUMBER_OF_POINTS |-> 4]
    \o [i \in 1..NUMBER_OF_POINTS |-> 8]
    \o [i \in 1..(NUMBER_OF_POINTS + 2) |-> 12]
    \o [i \in 1..14 |-> 4]

\* struct.calcsize of a format character in native mode.
CharSize(c) ==
    CASE c = "d" -> 8
      [] c = "i" -> 4
      [] c = "f" -> 4
      [] c = "?" -> 1

RECURSIVE CalcSize(_)
\* struct.calcsize(fmt), fmt given as the sequence of its characters; the
\* formats of the code repeat one type, so that no padding is inserted.
CalcSize(fmt) == IF fmt = <<>> THEN 0 ELSE CharSize(Head(fmt)) + CalcSize(Tail(fmt))

\* ReadFormats with the flag got_3d_points read as a 4-byte integer.
ReadFormats_with_int_flag ==
    << <<"d">>, <<"i">>, <<"f", "f">>, <<"f">>, <<"f">>, <<"i">>, <<"f">>,
       <<"f", "f", "f", "f">>, <<"f", "f", "f">>, <<"f", "f", "f">> >>
    \o [i \in 1..NUMBER_OF_POINTS |-> <<"f">>]
    \o [i \in 1..NUMBER_OF_POINTS |-> <<"f", "f">>]
    \o [i \in 1..(NUMBER_OF_POINTS + 2) |-> <<"f", "f", "f">>]
    \o [i \in 1..14 |-> <<"f">>]

\* The format of each struct.unpack_from call, in the order of the code.
ReadFormats ==
    << <<"d">>, <<"i">>, <<"f", "f">>, <<"f">>, <<"f">>, <<"?">>, <<"f">>,
       <<"f", "f", "f", "f">>, <<"f", "f", "f">>, <<"f", "f", "f">> >>
    \o [i \in 1..NUMBER_OF_POINTS |-> <<"f">>]
    \o [i \in 1..NUMBER_OF_POINTS |-> <<"f", "f">>]
    \o [i \in 1..(NUMBER_OF_POINTS + 2) |-> <<"f", "f", "f">>]
    \o [i \in 1..14 |-> <<"f">>]

\* The local variable of parse_open_see_data that each read fills; the 14
\* feature floats go into features through OpenSeeFeatures(...), whose
\* arguments are passed in the order of its fields.
ReadLocals ==
    <<"time", "id", "camera_resolution", "right_eye_open", "left_eye_open",
      "got_3d_points", "fit_3d_error", "quaternion", "euler", "translation">>
    \o [i \in 1..NUMBER_OF_POINTS |-> "confidence"]
    \o [i \in 1..NUMBER_OF_POINTS |-> "points"]
    \o [i \in 1..(NUMBER_OF_POINTS + 2) |-> "points3d"]
    \o [i \in 1..14 |-> "features"]

\* The fields of the dataclass OpenSeeData in the order of their declaration,
\* which is the order of the parameters of its constructor.
OpenSeeDataFields ==
    <<"time", "id", "camera_resolution", "right_eye_open", "left_eye_open",
      "got_3d_points", "fit_3d_error", "translation", "quaternion", "euler",
      "confidence", "points", "points3d", "open_see_features">>

\* The locals passed to OpenSeeData(...), in the order of the call.
OpenSeeDataArgs ==
    <<"time", "id", "camera_resolution", "right_eye_open", "left_eye_open",
      "got_3d_points", "fit_3d_error", "translation", "quaternion", "euler",
      "confidence", "points", "points3d", "features">>

\* The reads whose values end up in field number f of the record.
ReadsOfField(f) == {k \in 1..Len(ReadLocals) : ReadLocals[k] = OpenSeeDataArgs[f]}

RECURSIVE SumRange(_, _, _)
\* sizes[lo] + ... + sizes[hi], summed by halves.
SumRange(sizes, lo, hi) ==
    IF lo > hi THEN 0
    ELSE IF lo = hi THEN sizes[lo]
    ELSE LET mid == (lo + hi) \div 2
         IN  SumRange(sizes, lo, mid) + SumRange(sizes, mid + 1, hi)

\* Offset of each read: the value that the running "offset += n" of the code
\* has given the local variable offset when read k is made.
ReadOffsets == [k \in 1..Len(ReadSizes) |-> SumRange(ReadSizes, 1, k - 1)]

\* Index of the read that yields the field euler (the ninth read).
EulerRead == 9

\* struct.unpack_from raises struct.error when the buffer has fewer than
\* offset + size bytes; it accepts any longer buffer.
UnpackFits(n, k) == ReadOffsets[k] + ReadSizes[k] <= n

RECURSIVE ChunkAt(_, _)
\* The chunk of buf holding byte number off, with the position of that byte
\* inside the chunk.
ChunkAt(buf, off) ==
    IF off < Head(buf).len
    THEN [chunk |-> Head(buf), at |-> off]
    ELSE ChunkAt(Tail(buf), off - Head(buf).len)

\* The floats found at the euler field of the packet.  They are the sender's
\* Euler angles when the field lies in one datagram at its own place, and
\* unrelated bytes (None) when the packet was glued from misplaced parts.
EulerField(buf) ==
    LET loc == ChunkAt(buf, ReadOffsets[EulerRead])
    IN  IF /\ loc.at = ReadOffsets[EulerRead]
           /\ loc.at + ReadSizes[EulerRead] <= loc.chunk.len
        THEN loc.chunk.euler
        ELSE None

\* The result of parse_open_see_data(packet): struct.error is raised when a
\* read does not fit, else the record is returned (of which the relay uses
\* the field euler).
parse_open_see_data(packet) ==
    IF \A k \in 1..Len(ReadSizes) : UnpackFits(BufLen(packet), k)
    THEN [raised |-> Nothing, euler |-> EulerField(packet)]
    ELSE [raised |-> "struct.error", euler |-> None]

\* OpenSeeData.rotation with the modulo applied to the whole sum.
rotation_with_sum_wrapped(euler) ==
    LET x == (-euler[1] + Deg(180)) % Deg(360)
        z == euler[3] - Deg(90)
    IN  <<IF x > Deg(180) THEN x - Deg(360) ELSE x, euler[2], z>>

\* OpenSeeData.rotation: x = -euler.x + 180 % 360 (the modulo binds to the
\* literal 180), z = euler.z - 90, and x - 360 when x > 180.
rotation(euler) ==
    LET x == -euler[1] + (Deg(180) % Deg(360))
        z == euler[3] - Deg(90)
    IN  <<IF x > Deg(180) THEN x - Deg(360) ELSE x, euler[2], z>>

---------------------------------------------------------------------------
(* GetCamerasWorker.run: the text of the enumeration output                *)
(*                                                                         *)
(* The output of the enumeration process is a sequence of lines, a line is *)
(* a sequence of tokens: a decimal digit, ":", " " (whitespace), or a word *)
(* without digits, colons and whitespace at its ends.                      *)

Digits == {"0", "1", "2", "3", "4", "5", "6", "7", "8", "9"}

\* str.isspace() of a token.
IsSpace(t) == t = " "

\* int() of a digit.
DigitValue(d) ==
    CASE d = "0" -> 0 [] d = "1" -> 1 [] d = "2" -> 2 [] d = "3" -> 3
      [] d = "4" -> 4 [] d = "5" -> 5 [] d = "6" -> 6 [] d = "7" -> 7
      [] d = "8" -> 8 [] d = "9" -> 9

RECURSIVE PyInt(_)
\* int(s) for a non-empty sequence of digits.
PyInt(ds) ==
    IF ds = <<>> THEN 0
    ELSE 10 * PyInt(SubSeq(ds, 1, Len(ds) - 1)) + DigitValue(ds[Len(ds)])

RECURSIVE LStripLine(_)
\* A line without its leading whitespace.
LStripLine(line) ==
    IF line # <<>> /\ IsSpace(Head(line)) THEN LStripLine(Tail(line)) ELSE line

RECURSIVE RStripLine(_)
\* A line without its trailing whitespace.
RStripLine(line) ==
    IF line # <<>> /\ IsSpace(line[Len(line)])
    THEN RStripLine(SubSeq(line, 1, Len(line) - 1))
    ELSE line

RECURSIVE LStripText(_)
\* Text without the whitespace and line ends at its start.
LStripText(lines) ==
    IF lines = <<>> THEN <<>>
    ELSE IF LStripLine(Head(lines)) = <<>> THEN LStripText(Tail(lines))
    ELSE <<LStripLine(Head(lines))>> \o Tail(lines)

RECURSIVE RStripText(_)
\* Text without the whitespace and line ends at its end.
RStripText(lines) ==
    IF lines = <<>> THEN <<>>
    ELSE LET last == lines[Len(lines)]
             init == SubSeq(lines, 1, Len(lines) - 1)
         IN  IF RStripLine(last) = <<>> THEN RStripText(init)
             ELSE Append(init, RStripLine(last))

\* stdout.strip().splitlines()
StripSplitlines(stdout) == RStripText(LStripText(stdout))

\* lines[1:]
AfterFirst(lines) == IF lines = <<>> THEN <<>> ELSE Tail(lines)

RECURSIVE LeadingDigits(_)
\* The number of digits a line begins with: what the greedy \d+ takes.
LeadingDigits(line) ==
    IF line # <<>> /\ Head(line) \in Digits
    THEN 1 + LeadingDigits(Tail(line))
    ELSE 0

\* camera_regexp.match(line) for "^(\d+): (.+)$": None, or the two groups.
camera_regexp_match(line) ==
    LET n == LeadingDigits(line)
    IN  IF /\ n >= 1
           /\ Len(line) >= n + 3
           /\ line[n + 1] = ":"
           /\ line[n + 2] = " "
        THEN Some(<<SubSeq(line, 1, n), SubSeq(line, n + 3, Len(line))>>)
        ELSE None

RECURSIVE CamerasOfLines(_)
\* The loop of lines 60-67: one (id, name) tuple for each matching line.
CamerasOfLines(lines) ==
    IF lines = <<>> THEN <<>>
    ELSE LET matches == camera_regexp_match(Head(lines))
         IN  (IF matches # None
              THEN << <<PyInt(matches[1][1]), matches[1][2]>> >>
              ELSE <<>>)
             \o CamerasOfLines(Tail(lines))

\* The lines that GetCamerasWorker.run scans, without skipping the first.
ScannedLines_with_first(stdout) == StripSplitlines(stdout)

\* completed_process.stdout.strip().splitlines()[1:]
ScannedLines(stdout) == AfterFirst(StripSplitlines(stdout))

---------------------------------------------------------------------------
(* State                                                                   *)

VARIABLES
    \* The application
    app,                    \* "running", or "aborted" once Qt aborts the process
    \* The GetCamerasWorker that MainWindow.__init__ hands to the thread pool
    get_cameras,            \* [pc, returncode, stdout, errors, results, delivered]
    \* MainWindow
    cameras,                \* None until on_cameras_received, then Some(list)
    camera_selector,        \* currentIndex of the camera combo box (-1: empty)
    model_selector,         \* currentIndex of the model combo box
    visualize_checkbox,     \* isChecked
    start_stop_enabled,     \* start_stop_tracking_button.isEnabled
    params_enabled,         \* set_enabled_on_tracking_related_params state;
                            \* use_current_rotation_as_zero is enabled iff not
    offset_pitch_dial,      \* value of the dial, tenths of a degree
    offset_yaw_dial,
    offset_roll_dial,
    last_detected_rotation, \* None or the last triple received
    face_tracking_thread,   \* 0 for None, else the number of the thread object
    \* FaceTrackingThread.signals, shared by all thread objects
    connections,            \* how often the two slots have been connected
    events,                 \* queued signal deliveries to the main thread
    errors_emitted,         \* emissions of FaceTrackingSignals.error
    \* The current FaceTrackingThread object
    pc,                     \* position of the worker in run()
    _should_run,
    pitch_offset,
    yaw_offset,
    roll_offset,
    camera_id,
    model,
    visualize,
    \* Locals of run()
    sock,                   \* datagrams waiting in the receive socket
    face_tracker_port,      \* port the socket is bound to (0: not bound)
    face_tracking_process,  \* None or Some([args, state, terminate_called])
    buf,
    parsed,
    \* The output sink and the history the properties refer to
    sent,                   \* send_message calls of the current loop iteration
    outcome,                \* how the current loop iteration ended
    discarded,              \* ids of datagrams whose bytes a zero read dropped
    stop_requested_at,      \* None, or pc when stop() was first called
    waits_after_stop,       \* select calls begun since that stop()
    n_datagrams,            \* datagrams sent so far
    inputs                  \* inputs from outside so far

vars == <<app, get_cameras, cameras, camera_selector, model_selector, visualize_checkbox,
          start_stop_enabled, params_enabled, offset_pitch_dial,
          offset_yaw_dial, offset_roll_dial, last_detected_rotation,
          face_tracking_thread, connections, events, errors_emitted, pc,
          _should_run, pitch_offset, yaw_offset, roll_offset, camera_id,
          model, visualize, sock, face_tracker_port, face_tracking_process,
          buf, parsed, sent, outcome, discarded, stop_requested_at,
          waits_after_stop, n_datagrams, inputs>>

\* Groups of variables, for UNCHANGED.
windowVars == <<get_cameras, cameras, camera_selector, model_selector, visualize_checkbox,
                start_stop_enabled, params_enabled, offset_pitch_dial,
                offset_yaw_dial, offset_roll_dial, last_detected_rotation,
                face_tracking_thread, connections>>

offsetVars == <<pitch_offset, yaw_offset, roll_offset>>

configVars == <<camera_id, model, visualize>>

envVars == <<n_datagrams, inputs>>

\* Everything the worker leaves alone in every step of run().
workerFrame == <<windowVars, offsetVars, configVars, errors_emitted, inputs,
                 n_datagrams, stop_requested_at>>

---------------------------------------------------------------------------
(* Inputs                                                                  *)

\* Lines that the enumeration process may print.
HeaderLine == <<"Available cameras:">>

WebcamLine == <<"0", ":", " ", "Integrated Webcam">>

UsbCameraLine == <<"1", ":", " ", "USB Camera">>

StdoutLineKinds ==
    { HeaderLine, WebcamLine, UsbCameraLine,
      <<"garbage">>,                                \* no match
      <<>>,                                         \* an empty line
      <<"0", "2", ":", " ", "USB", " ", "Camera", " ">>,  \* ends in whitespace
      <<"3", ":", " ", " ">> }                      \* the name is whitespace

\* The sequences of at most n lines of a set.
SeqsUpTo(S, n) == UNION {[1..m -> S] : m \in 0..n}

\* Outputs of the enumeration process.
EnumerationStdouts == SeqsUpTo(StdoutLineKinds, MaxStdoutLines)

\* Exit codes of the enumeration process.
EnumerationReturnCodes == {0, 1}

\* The outputs of a tracker that lists no camera, or two.
UsualStdouts ==
    { <<HeaderLine>>, <<HeaderLine, WebcamLine, UsbCameraLine>> }

\* The port the operating system assigns to a socket bound to port 0.
EphemeralPorts == {50000}

\* Positions to which the user turns an offset dial (tenths of a degree).
UserDialValues == {0, 250}

\* Where run() stands while the thread isRunning().
RunPcs == {"bind", "set_run", "spawn", "while", "select", "waiting", "recv",
           "parse", "emit", "send_pitch", "send_yaw", "send_roll",
           "terminate", "emit_stopped"}

\* The relay loop proper (state Running): line 119 to line 140.
LoopPcs == {"while", "select", "waiting", "recv", "parse", "emit",
            "send_pitch", "send_yaw", "send_roll"}

\* Where the receive socket is bound and open.
SocketPcs == RunPcs \ {"bind"}

\* QThread.isRunning()
isRunning == pc \in RunPcs

\* The state after MainWindow.__init__ when the enumeration process is going
\* to print one of stdouts and exit with one of returncodes.
InitWith(stdouts, returncodes) ==
    /\ app = "running"
    /\ \E out \in stdouts, rc \in returncodes :
          get_cameras = [pc |-> "queued", returncode |-> rc, stdout |-> out,
                         errors |-> 0, results |-> <<>>, delivered |-> 0]
    /\ cameras = None
    /\ camera_selector = -1
    /\ model_selector = 0
    /\ visualize_checkbox = FALSE
    /\ start_stop_enabled = TRUE
    /\ params_enabled = TRUE
    /\ offset_pitch_dial = 0
    /\ offset_yaw_dial = 0
    /\ offset_roll_dial = 0
    /\ last_detected_rotation = None
    /\ face_tracking_thread = 0
    /\ connections = 0
    /\ events = <<>>
    /\ errors_emitted = 0
    /\ pc = "none"
    /\ _should_run = TRUE
    /\ pitch_offset = 0
    /\ yaw_offset = 0
    /\ roll_offset = 0
    /\ camera_id = 0
    /\ model = 1
    /\ visualize = FALSE
    /\ sock = <<>>
    /\ face_tracker_port = 0
    /\ face_tracking_process = None
    /\ buf = <<>>
    /\ parsed = None
    /\ sent = <<>>
    /\ outcome = Nothing
    /\ discarded = {}
    /\ stop_requested_at = Nothing
    /\ waits_after_stop = 0
    /\ n_datagrams = 0
    /\ inputs = 0

Init == InitWith(UsualStdouts, {0})

---------------------------------------------------------------------------
(* FaceTrackingThread.run, statement by statement                          *)

\* An exception leaves run().  Nothing in run() catches one, so the thread
\* ends there; PyQt5 then either aborts the process (qFatal, its default
\* since 5.5) or, with an excepthook installed, lets the application go on.
Raise ==
    /\ pc' = "raised"
    /\ app' \in {"running", "aborted"}

\* emit() of a signal whose receiver lives in the main thread: one queued
\* delivery for each connection made so far.
Emit(signal, args) ==
    events \o [i \in 1..connections |-> [signal |-> signal, args |-> args]]

\* face_tracking_process_args with "-v 1" appended in every case.
face_tracking_process_args_always_visualizing ==
    <<"-c", camera_id, "-m", model, "-p", face_tracker_port, "-v", 1>>

\* The argument list handed to subprocess.Popen.
face_tracking_process_args ==
    <<"-c", camera_id, "-m", model, "-p", face_tracker_port>>
    \o (IF visualize THEN <<"-v", 1>> ELSE <<>>)

\* Lines 101-104: create the socket, bind it, read the port back.
run_bind ==
    /\ app = "running"
    /\ pc = "bind"
    /\ \/ /\ \E p \in EphemeralPorts : face_tracker_port' = p
          /\ sock' = <<>>
          /\ pc' = "set_run"
          /\ app' = app
       \/ /\ Raise
          /\ UNCHANGED <<sock, face_tracker_port>>
    /\ UNCHANGED <<workerFrame, events, _should_run, face_tracking_process,
                   buf, parsed, sent, outcome, discarded, waits_after_stop>>

\* Line 107: self._should_run = True
run_set_should_run ==
    /\ app = "running"
    /\ pc = "set_run"
    /\ _should_run' = TRUE
    /\ pc' = "spawn"
    /\ UNCHANGED <<workerFrame, app, events, sock, face_tracker_port,
                   face_tracking_process, buf, parsed, sent, outcome,
                   discarded, waits_after_stop>>

\* Lines 108-118: build the arguments, Popen, create the OSC client.
run_spawn ==
    /\ app = "running"
    /\ pc = "spawn"
    /\ \/ /\ face_tracking_process' =
                Some([args |-> face_tracking_process_args,
                      state |-> "running", terminate_called |-> FALSE])
          /\ pc' = "while"
          /\ app' = app
       \/ /\ Raise
          /\ UNCHANGED face_tracking_process
    /\ UNCHANGED <<workerFrame, events, _should_run, sock, face_tracker_port,
                   buf, parsed, sent, outcome, discarded, waits_after_stop>>

\* Line 119: while(self._should_run)
run_while ==
    /\ app = "running"
    /\ pc = "while"
    /\ pc' = IF _should_run THEN "select" ELSE "terminate"
    /\ UNCHANGED <<workerFrame, app, events, _should_run, sock,
                   face_tracker_port, face_tracking_process, buf, parsed,
                   sent, outcome, discarded, waits_after_stop>>

\* Line 120: select.select is entered; a new loop iteration has begun.
run_select ==
    /\ app = "running"
    /\ pc = "select"
    /\ pc' = "waiting"
    /\ sent' = <<>>
    /\ outcome' = Nothing
    /\ waits_after_stop' =
          IF stop_requested_at = Nothing THEN 0 ELSE Min(waits_after_stop + 1, 2)
    /\ UNCHANGED <<workerFrame, app, events, _should_run, sock,
                   face_tracker_port, face_tracking_process, buf, parsed,
                   discarded>>

\* run_select_ready with "buf = b''" hoisted out of the loop: the bytes of
\* the previous iteration stay in buf.
run_select_ready_keeps_buf ==
    /\ app = "running"
    /\ pc = "waiting"
    /\ sock # <<>>
    /\ pc' = "recv"
    /\ UNCHANGED <<workerFrame, app, events, _should_run, sock,
                   face_tracker_port, face_tracking_process, buf, parsed,
                   sent, outcome, discarded, waits_after_stop>>

\* Lines 120-122: select returns the socket as readable; buf = b''.
run_select_ready ==
    /\ app = "running"
    /\ pc = "waiting"
    /\ sock # <<>>
    /\ buf' = <<>>
    /\ pc' = "recv"
    /\ UNCHANGED <<workerFrame, app, events, _should_run, sock,
                   face_tracker_port, face_tracking_process, parsed, sent,
                   outcome, discarded, waits_after_stop>>

\* run_select_timeout giving up after the timeout: it clears the stop flag,
\* so that the loop ends and the tracker is terminated.
run_select_timeout_giving_up ==
    /\ app = "running"
    /\ pc = "waiting"
    /\ sock = <<>>
    /\ buf' = <<>>
    /\ outcome' = "timeout"
    /\ _should_run' = FALSE
    /\ pc' = "while"
    /\ UNCHANGED <<workerFrame, app, events, sock, face_tracker_port,
                   face_tracking_process, parsed, sent, discarded,
                   waits_after_stop>>

\* run_select_timeout waiting again at once, without going through the
\* loop condition.
run_select_timeout_waits_again ==
    /\ app = "running"
    /\ pc = "waiting"
    /\ sock = <<>>
    /\ buf' = <<>>
    /\ outcome' = "timeout"
    /\ pc' = "select"
    /\ UNCHANGED <<workerFrame, app, events, _should_run, sock,
                   face_tracker_port, face_tracking_process, parsed, sent,
                   discarded, waits_after_stop>>

\* Lines 120-121, 129-130: nothing arrived for 5 seconds; buf = b''; continue.
run_select_timeout ==
    /\ app = "running"
    /\ pc = "waiting"
    /\ sock = <<>>
    /\ buf' = <<>>
    /\ outcome' = "timeout"
    /\ pc' = "while"
    /\ UNCHANGED <<workerFrame, app, events, _should_run, sock,
                   face_tracker_port, face_tracking_process, parsed, sent,
                   discarded, waits_after_stop>>

\* Line 123: the condition of the inner loop.
InnerLoopGoesOn(b) == BufLen(b) < PACKET_SIZE

\* Line 132: if (len(buf) < PACKET_SIZE): continue
IsIncomplete(b) == BufLen(b) < PACKET_SIZE

\* Lines 123-134: one pass of the inner loop, and what follows when it ends.
\* The socket is non-blocking: recvfrom raises BlockingIOError when no
\* datagram is waiting.
run_recv ==
    /\ app = "running"
    /\ pc = "recv"
    /\ IF sock = <<>>
       THEN /\ Raise
            /\ UNCHANGED <<sock, buf, outcome, discarded>>
       ELSE LET newdata == RecvFrom(Head(sock), PACKET_SIZE)
                grown   == Append(buf, newdata)
            IN  /\ sock' = Tail(sock)
                /\ app' = app
                /\ IF newdata.len = 0
                   THEN \* break
                        /\ buf' = buf
                        /\ IF IsIncomplete(buf)
                           THEN /\ pc' = "while"
                                /\ outcome' = "discarded"
                                /\ discarded' = discarded \cup ChunkIds(buf)
                           ELSE /\ pc' = "parse"
                                /\ UNCHANGED <<outcome, discarded>>
                   ELSE /\ buf' = grown
                        /\ IF InnerLoopGoesOn(grown)
                           THEN /\ pc' = "recv"
                                /\ UNCHANGED <<outcome, discarded>>
                           ELSE IF IsIncomplete(grown)
                                THEN /\ pc' = "while"
                                     /\ outcome' = "discarded"
                                     /\ discarded' = discarded \cup ChunkIds(grown)
                                ELSE /\ pc' = "parse"
                                     /\ UNCHANGED <<outcome, discarded>>
    /\ UNCHANGED <<workerFrame, events, _should_run, face_tracker_port,
                   face_tracking_process, parsed, sent, waits_after_stop>>

\* Line 136: parsed = parse_open_see_data(buf)
run_parse ==
    /\ app = "running"
    /\ pc = "parse"
    /\ LET r == parse_open_see_data(buf)
       IN  IF r.raised # Nothing
           THEN /\ Raise
                /\ UNCHANGED parsed
           ELSE /\ parsed' = Some(r)
                /\ pc' = "emit"
                /\ app' = app
    /\ UNCHANGED <<workerFrame, events, _should_run, sock, face_tracker_port,
                   face_tracking_process, buf, sent, outcome, discarded,
                   waits_after_stop>>

\* run_emit_tracking emitting the rotation with the offsets added.
run_emit_tracking_corrected ==
    /\ app = "running"
    /\ pc = "emit"
    /\ events' = Emit("tracking",
                      <<rotation(parsed[1].euler)[1] + pitch_offset,
                        rotation(parsed[1].euler)[2] + yaw_offset,
                        rotation(parsed[1].euler)[3] + roll_offset>>)
    /\ pc' = "send_pitch"
    /\ UNCHANGED <<workerFrame, app, _should_run, sock, face_tracker_port,
                   face_tracking_process, buf, parsed, sent, outcome,
                   discarded, waits_after_stop>>

\* Line 137: self.signals.tracking.emit(parsed.rotation)
run_emit_tracking ==
    /\ app = "running"
    /\ pc = "emit"
    /\ events' = Emit("tracking", rotation(parsed[1].euler))
    /\ pc' = "send_pitch"
    /\ UNCHANGED <<workerFrame, app, _should_run, sock, face_tracker_port,
                   face_tracking_process, buf, parsed, sent, outcome,
                   discarded, waits_after_stop>>

\* osc_client.send_message(address, value)
send_message(address, value) ==
    sent' = Append(sent, [address |-> address, value |-> value])

\* run_send_pitch sending the pitch without its offset.
run_send_pitch_without_offset ==
    /\ app = "running"
    /\ pc = "send_pitch"
    /\ sent' = Append(sent, [address |-> "/SceneRotator/pitch",
                             value |-> rotation(parsed[1].euler)[1]])
    /\ pc' = "send_yaw"
    /\ UNCHANGED <<workerFrame, app, events, _should_run, sock,
                   face_tracker_port, face_tracking_process, buf, parsed,
                   outcome, discarded, waits_after_stop>>

\* Line 138
run_send_pitch ==
    /\ app = "running"
    /\ pc = "send_pitch"
    /\ send_message("/SceneRotator/pitch", rotation(parsed[1].euler)[1] + pitch_offset)
    /\ pc' = "send_yaw"
    /\ UNCHANGED <<workerFrame, app, events, _should_run, sock,
                   face_tracker_port, face_tracking_process, buf, parsed,
                   outcome, discarded, waits_after_stop>>

\* Line 139
run_send_yaw ==
    /\ app = "running"
    /\ pc = "send_yaw"
    /\ send_message("/SceneRotator/yaw", rotation(parsed[1].euler)[2] + yaw_offset)
    /\ pc' = "send_roll"
    /\ UNCHANGED <<workerFrame, app, events, _should_run, sock,
                   face_tracker_port, face_tracking_process, buf, parsed,
                   outcome, discarded, waits_after_stop>>

\* Line 140, the last statement of the loop body.
run_send_roll ==
    /\ app = "running"
    /\ pc = "send_roll"
    /\ send_message("/SceneRotator/roll", rotation(parsed[1].euler)[3] + roll_offset)
    /\ outcome' = "decoded"
    /\ pc' = "while"
    /\ UNCHANGED <<workerFrame, app, events, _should_run, sock,
                   face_tracker_port, face_tracking_process, buf, parsed,
                   discarded, waits_after_stop>>

\* run_terminate going on to line 143 without the call of terminate().
run_terminate_without_call ==
    /\ app = "running"
    /\ pc = "terminate"
    /\ pc' = "emit_stopped"
    /\ UNCHANGED <<workerFrame, app, events, _should_run, sock,
                   face_tracker_port, face_tracking_process, buf, parsed,
                   sent, outcome, discarded, waits_after_stop>>

\* Line 142: face_tracking_process.terminate()
run_terminate ==
    /\ app = "running"
    /\ pc = "terminate"
    /\ face_tracking_process' =
          [face_tracking_process EXCEPT ![1].terminate_called = TRUE]
    /\ pc' = "emit_stopped"
    /\ UNCHANGED <<workerFrame, app, events, _should_run, sock,
                   face_tracker_port, buf, parsed, sent, outcome, discarded,
                   waits_after_stop>>

\* Lines 143-144: self._should_run = False; self.signals.stopped.emit();
\* run() returns.
run_emit_stopped ==
    /\ app = "running"
    /\ pc = "emit_stopped"
    /\ _should_run' = FALSE
    /\ events' = Emit("stopped", None)
    /\ pc' = "finished"
    /\ UNCHANGED <<workerFrame, app, sock, face_tracker_port,
                   face_tracking_process, buf, parsed, sent, outcome,
                   discarded, waits_after_stop>>

---------------------------------------------------------------------------
(* FaceTrackingThread slots, called from the main thread                   *)

\* FaceTrackingThread.stop
stop == _should_run' = FALSE

\* set_pitch_offset storing the negated value.
set_pitch_offset_negated(f) == pitch_offset' = -f

\* FaceTrackingThread.set_pitch_offset
set_pitch_offset(f) == pitch_offset' = f

\* FaceTrackingThread.set_yaw_offset
set_yaw_offset(f) == yaw_offset' = f

\* FaceTrackingThread.set_roll_offset
set_roll_offset(f) == roll_offset' = f

---------------------------------------------------------------------------
(* MainWindow slots; each runs to completion on the main thread            *)

\* Everything of the worker's own state that the main thread never writes.
runLocals == <<sock, face_tracker_port, face_tracking_process, buf, parsed,
               sent, outcome, discarded>>

\* What GetCamerasWorker.run and the delivery of its result leave alone.
camerasFrame == <<app, model_selector, visualize_checkbox, start_stop_enabled,
                  params_enabled, offset_pitch_dial, offset_yaw_dial,
                  offset_roll_dial, last_detected_rotation,
                  face_tracking_thread, connections, events, errors_emitted,
                  pc, _should_run, offsetVars, configVars, runLocals,
                  stop_requested_at, waits_after_stop, envVars>>

\* GetCamerasWorker.run, on a thread of the pool once the enumeration
\* process has exited: a nonzero exit code emits error and returns; else the
\* lines after the first are scanned and result is emitted with the list.
GetCamerasWorker_run ==
    /\ app = "running"
    /\ get_cameras.pc = "queued"
    /\ IF get_cameras.returncode # 0
       THEN get_cameras' = [get_cameras EXCEPT !.pc = "finished",
                                               !.errors = @ + 1]
       ELSE get_cameras' =
               [get_cameras EXCEPT
                   !.pc = "finished",
                   !.results = Append(@, CamerasOfLines(ScannedLines(get_cameras.stdout)))]
    /\ UNCHANGED <<camerasFrame, cameras, camera_selector>>

\* on_cameras_received(cameras), run by the event loop for a queued result:
\* the combo box is cleared and refilled, and selects its first item when
\* there is one.
on_cameras_received ==
    /\ app = "running"
    /\ get_cameras.delivered < Len(get_cameras.results)
    /\ LET list == get_cameras.results[get_cameras.delivered + 1]
       IN  /\ cameras' = Some(list)
           /\ camera_selector' = IF list = <<>> THEN -1 ELSE 0
    /\ get_cameras' = [get_cameras EXCEPT !.delivered = @ + 1]
    /\ UNCHANGED <<app, model_selector, visualize_checkbox, start_stop_enabled,
                   params_enabled, offset_pitch_dial, offset_yaw_dial,
                   offset_roll_dial, last_detected_rotation,
                   face_tracking_thread, connections, events, errors_emitted,
                   pc, _should_run, offsetVars, configVars, runLocals,
                   stop_requested_at, waits_after_stop, envVars>>

\* The user picks another camera, model tier or visualisation setting; the
\* widgets accept input only while set_enabled_on_tracking_related_params
\* has them enabled.
UserSelects ==
    /\ app = "running"
    /\ params_enabled
    /\ inputs < MaxInputs
    /\ inputs' = inputs + 1
    /\ \/ /\ cameras # None
          /\ \E i \in 0..(Len(cameras[1]) - 1) :
                /\ i # camera_selector
                /\ camera_selector' = i
          /\ UNCHANGED <<model_selector, visualize_checkbox>>
       \/ /\ \E i \in 0..(Len(MODELS_WITH_DESCRIPTION) - 1) :
                /\ i # model_selector
                /\ model_selector' = i
          /\ UNCHANGED <<camera_selector, visualize_checkbox>>
       \/ /\ visualize_checkbox' = ~visualize_checkbox
          /\ UNCHANGED <<camera_selector, model_selector>>
    /\ UNCHANGED <<app, get_cameras, cameras, start_stop_enabled, params_enabled,
                   offset_pitch_dial, offset_yaw_dial, offset_roll_dial,
                   last_detected_rotation, face_tracking_thread, connections,
                   events, errors_emitted, pc, _should_run, offsetVars,
                   configVars, runLocals, stop_requested_at, waits_after_stop,
                   n_datagrams>>

\* StartBranch starting the session on the thread object of the session
\* before: the offsets keep their values.
StartBranch_reusing_thread_object ==
    /\ params_enabled' = FALSE
    /\ face_tracking_thread' = face_tracking_thread + 1
    /\ _should_run' = TRUE
    /\ UNCHANGED offsetVars
    /\ IF cameras = None \/ camera_selector = -1
       THEN /\ camera_id' = 0
            /\ model' = 1
            /\ visualize' = FALSE
            /\ pc' = "new"
            /\ app' \in {"running", "aborted"}
            /\ UNCHANGED connections
       ELSE /\ camera_id' = cameras[1][camera_selector + 1][1]
            /\ model' = MODELS_WITH_DESCRIPTION[model_selector + 1]
            /\ visualize' = visualize_checkbox
            /\ connections' = connections + 1
            /\ pc' = "bind"
            /\ app' = app
    /\ stop_requested_at' = Nothing
    /\ waits_after_stop' = 0
    /\ sock' = <<>>
    /\ face_tracker_port' = 0
    /\ face_tracking_process' = None
    /\ buf' = <<>>
    /\ parsed' = None
    /\ sent' = <<>>
    /\ outcome' = Nothing
    /\ UNCHANGED <<start_stop_enabled, discarded>>

\* Lines 377-390: the branch of on_start_stop_tracking_clicked that starts a
\* session.  A new FaceTrackingThread has the class defaults.  Line 381
\* raises when no camera list was received (AttributeError) or the list is
\* empty (IndexError); the thread object is then already assigned but never
\* started.
StartBranch ==
    /\ params_enabled' = FALSE
    /\ face_tracking_thread' = face_tracking_thread + 1
    /\ _should_run' = TRUE
    /\ pitch_offset' = 0
    /\ yaw_offset' = 0
    /\ roll_offset' = 0
    /\ IF cameras = None \/ camera_selector = -1
       THEN /\ camera_id' = 0
            /\ model' = 1
            /\ visualize' = FALSE
            /\ pc' = "new"
            /\ app' \in {"running", "aborted"}
            /\ UNCHANGED connections
       ELSE /\ camera_id' = cameras[1][camera_selector + 1][1]
            /\ model' = MODELS_WITH_DESCRIPTION[model_selector + 1]
            /\ visualize' = visualize_checkbox
            /\ connections' = connections + 1
            /\ pc' = "bind"
            /\ app' = app
    /\ stop_requested_at' = Nothing
    /\ waits_after_stop' = 0
    /\ sock' = <<>>
    /\ face_tracker_port' = 0
    /\ face_tracking_process' = None
    /\ buf' = <<>>
    /\ parsed' = None
    /\ sent' = <<>>
    /\ outcome' = Nothing
    /\ UNCHANGED <<start_stop_enabled, discarded>>

\* Lines 392-393: the branch that asks the running thread to stop.
StopBranch ==
    /\ start_stop_enabled' = FALSE
    /\ stop
    /\ stop_requested_at' =
          IF stop_requested_at = Nothing THEN pc ELSE stop_requested_at
    /\ UNCHANGED <<app, params_enabled, face_tracking_thread, connections, pc,
                   offsetVars, configVars, runLocals, waits_after_stop>>

\* MainWindow.on_start_stop_tracking_clicked
on_start_stop_tracking_clicked ==
    /\ app = "running"
    /\ start_stop_enabled
    /\ inputs < MaxInputs
    /\ inputs' = inputs + 1
    /\ IF face_tracking_thread = 0 \/ ~isRunning
       THEN StartBranch
       ELSE StopBranch
    /\ UNCHANGED <<get_cameras, cameras, camera_selector, model_selector,
                   visualize_checkbox, offset_pitch_dial, offset_yaw_dial,
                   offset_roll_dial, last_detected_rotation, events,
                   errors_emitted, n_datagrams>>

\* MainWindow.on_offset_pitch_changed(new_value)
on_offset_pitch_changed(new_value) ==
    IF face_tracking_thread # 0
    THEN set_pitch_offset(DialToOffset(new_value))
    ELSE UNCHANGED pitch_offset

\* MainWindow.on_offset_yaw_changed(new_value)
on_offset_yaw_changed(new_value) ==
    IF face_tracking_thread # 0
    THEN set_yaw_offset(DialToOffset(new_value))
    ELSE UNCHANGED yaw_offset

\* MainWindow.on_offset_roll_changed(new_value)
on_offset_roll_changed(new_value) ==
    IF face_tracking_thread # 0
    THEN set_roll_offset(DialToOffset(new_value))
    ELSE UNCHANGED roll_offset

\* QDial.setValue(v) on the pitch offset dial: the value is clamped to the
\* range, and valueChanged is emitted only if the value changes.
SetPitchDial(v) ==
    /\ offset_pitch_dial' = ClampDial(v)
    /\ IF ClampDial(v) # offset_pitch_dial
       THEN on_offset_pitch_changed(ClampDial(v))
       ELSE UNCHANGED pitch_offset

SetYawDial(v) ==
    /\ offset_yaw_dial' = ClampDial(v)
    /\ IF ClampDial(v) # offset_yaw_dial
       THEN on_offset_yaw_changed(ClampDial(v))
       ELSE UNCHANGED yaw_offset

SetRollDial(v) ==
    /\ offset_roll_dial' = ClampDial(v)
    /\ IF ClampDial(v) # offset_roll_dial
       THEN on_offset_roll_changed(ClampDial(v))
       ELSE UNCHANGED roll_offset

\* What a dial operation or a capture leaves alone.
dialFrame == <<app, get_cameras, cameras, camera_selector, model_selector,
               visualize_checkbox, start_stop_enabled, params_enabled,
               last_detected_rotation, face_tracking_thread, connections,
               events, errors_emitted, pc, _should_run, configVars, runLocals,
               stop_requested_at, waits_after_stop, n_datagrams>>

\* The user turns the pitch offset dial.
UserTurnsPitchDial ==
    /\ app = "running"
    /\ inputs < MaxInputs
    /\ inputs' = inputs + 1
    /\ \E v \in UserDialValues : v # offset_pitch_dial /\ SetPitchDial(v)
    /\ UNCHANGED <<dialFrame, offset_yaw_dial, offset_roll_dial, yaw_offset,
                   roll_offset>>

\* The user turns the yaw offset dial.
UserTurnsYawDial ==
    /\ app = "running"
    /\ inputs < MaxInputs
    /\ inputs' = inputs + 1
    /\ \E v \in UserDialValues : v # offset_yaw_dial /\ SetYawDial(v)
    /\ UNCHANGED <<dialFrame, offset_pitch_dial, offset_roll_dial,
                   pitch_offset, roll_offset>>

\* The user turns the roll offset dial.
UserTurnsRollDial ==
    /\ app = "running"
    /\ inputs < MaxInputs
    /\ inputs' = inputs + 1
    /\ \E v \in UserDialValues : v # offset_roll_dial /\ SetRollDial(v)
    /\ UNCHANGED <<dialFrame, offset_pitch_dial, offset_yaw_dial,
                   pitch_offset, yaw_offset>>

\* MainWindow.on_use_current_rotation_as_zero_clicked; the button is enabled
\* while the tracking parameters are disabled.
on_use_current_rotation_as_zero_clicked ==
    /\ app = "running"
    /\ ~params_enabled
    /\ inputs < MaxInputs
    /\ inputs' = inputs + 1
    /\ IF last_detected_rotation # None
       THEN /\ SetPitchDial(-IntTimes10(last_detected_rotation[1]))
            /\ SetYawDial(-IntTimes10(last_detected_rotation[2]))
            /\ SetRollDial(-IntTimes10(last_detected_rotation[3]))
       ELSE UNCHANGED <<offset_pitch_dial, offset_yaw_dial, offset_roll_dial,
                        offsetVars>>
    /\ UNCHANGED dialFrame

\* What the delivery of a queued signal leaves alone.
deliveryFrame == <<app, get_cameras, cameras, camera_selector, model_selector,
                   visualize_checkbox, offset_pitch_dial, offset_yaw_dial,
                   offset_roll_dial, face_tracking_thread, connections,
                   errors_emitted, pc, _should_run, offsetVars, configVars,
                   runLocals, stop_requested_at, waits_after_stop, envVars>>

\* MainWindow.on_tracking_rotation_received(rotation), run by the event loop
\* for the queued delivery at the head of the queue.
on_tracking_rotation_received ==
    /\ app = "running"
    /\ events # <<>>
    /\ Head(events).signal = "tracking"
    /\ last_detected_rotation' = Head(events).args
    /\ events' = Tail(events)
    /\ UNCHANGED <<deliveryFrame, start_stop_enabled, params_enabled>>

\* MainWindow.on_face_tracking_thread_stopped
on_face_tracking_thread_stopped ==
    /\ app = "running"
    /\ events # <<>>
    /\ Head(events).signal = "stopped"
    /\ params_enabled' = TRUE
    /\ start_stop_enabled' = TRUE
    /\ events' = Tail(events)
    /\ UNCHANGED <<deliveryFrame, last_detected_rotation>>

---------------------------------------------------------------------------
(* The environment                                                         *)

\* A datagram reaches the bound receive socket.
DatagramArrives ==
    /\ app = "running"
    /\ pc \in SocketPcs
    /\ inputs < MaxInputs
    /\ inputs' = inputs + 1
    /\ n_datagrams' = n_datagrams + 1
    /\ \E k \in DatagramKinds :
          sock' = Append(sock, [id |-> n_datagrams + 1, len |-> k.len,
                                euler |-> k.euler])
    /\ UNCHANGED <<app, windowVars, events, errors_emitted, pc, _should_run,
                   offsetVars, configVars, face_tracker_port,
                   face_tracking_process, buf, parsed, sent, outcome,
                   discarded, stop_requested_at, waits_after_stop>>

\* The tracker process ends, by itself or after terminate().
ProcessExits ==
    /\ app = "running"
    /\ face_tracking_process # None
    /\ face_tracking_process[1].state = "running"
    /\ face_tracking_process' =
          [face_tracking_process EXCEPT ![1].state = "exited"]
    /\ UNCHANGED <<app, windowVars, events, errors_emitted, pc, _should_run,
                   offsetVars, configVars, sock, face_tracker_port, buf,
                   parsed, sent, outcome, discarded, stop_requested_at,
                   waits_after_stop, envVars>>

---------------------------------------------------------------------------
(* Specification                                                           *)

\* The relay: one worker at a time, the window's slots, the datagrams.
\* The tracker parameters keep their defaults and the tracker keeps running.
Next ==
    \/ GetCamerasWorker_run
    \/ run_bind
    \/ run_set_should_run
    \/ run_spawn
    \/ run_while
    \/ run_select
    \/ run_select_ready
    \/ run_select_timeout
    \/ run_recv
    \/ run_parse
    \/ run_emit_tracking
    \/ run_send_pitch
    \/ run_send_yaw
    \/ run_send_roll
    \/ run_terminate
    \/ run_emit_stopped
    \/ on_cameras_received
    \/ on_start_stop_tracking_clicked
    \/ UserTurnsPitchDial
    \/ UserTurnsYawDial
    \/ UserTurnsRollDial
    \/ on_use_current_rotation_as_zero_clicked
    \/ on_tracking_rotation_received
    \/ on_face_tracking_thread_stopped
    \/ DatagramArrives

Spec == Init /\ [][Next]_vars

\* The life of the sessions when no datagram arrives: the user chooses the
\* tracker parameters, and the tracker may exit by itself.
LifecycleNext ==
    \/ GetCamerasWorker_run
    \/ run_bind
    \/ run_set_should_run
    \/ run_spawn
    \/ run_while
    \/ run_select
    \/ run_select_timeout
    \/ run_terminate
    \/ run_emit_stopped
    \/ on_cameras_received
    \/ UserSelects
    \/ on_start_stop_tracking_clicked
    \/ on_face_tracking_thread_stopped
    \/ ProcessExits

LifecycleSpec == Init /\ [][LifecycleNext]_vars

\* The steps of the worker thread in LifecycleNext.
LifecycleWorkerStep ==
    \/ run_bind
    \/ run_set_should_run
    \/ run_spawn
    \/ run_while
    \/ run_select
    \/ run_select_timeout
    \/ run_terminate
    \/ run_emit_stopped

\* LifecycleSpec with a worker thread that keeps being scheduled: a started
\* run() goes on to its next statement, and select returns after 5 seconds
\* at the latest.  Nothing obliges the user to click.
LifecycleFairSpec == LifecycleSpec /\ WF_vars(LifecycleWorkerStep)

\* The Euler angles of the packets handed to the decoder on its own: every
\* whole degree of x in the range, and a few values of y and z.
DecoderEulers ==
    { <<Deg(x), Deg(y), Deg(z)>> :
          x \in (-MaxEulerX)..MaxEulerX, y \in {-10, 0, 10},
          z \in {-90, 0, 90, 100} }

\* The first session at line 136 with a whole packet in buf: the window got
\* the camera list, Start was clicked, the worker bound the socket, spawned
\* the tracker and read one datagram of PACKET_SIZE bytes.
DecoderInit ==
    /\ app = "running"
    /\ get_cameras =
          [pc |-> "finished", returncode |-> 0,
           stdout |-> <<HeaderLine, WebcamLine, UsbCameraLine>>, errors |-> 0,
           results |-> << << <<0, <<"Integrated Webcam">>>>,
                            <<1, <<"USB Camera">>>> >> >>,
           delivered |-> 1]
    /\ cameras = Some(<< <<0, <<"Integrated Webcam">>>>, <<1, <<"USB Camera">>>> >>)
    /\ camera_selector = 0
    /\ model_selector = 0
    /\ visualize_checkbox = FALSE
    /\ start_stop_enabled = TRUE
    /\ params_enabled = FALSE
    /\ offset_pitch_dial = 0
    /\ offset_yaw_dial = 0
    /\ offset_roll_dial = 0
    /\ last_detected_rotation = None
    /\ face_tracking_thread = 1
    /\ connections = 1
    /\ events = <<>>
    /\ errors_emitted = 0
    /\ pc = "parse"
    /\ _should_run = TRUE
    /\ pitch_offset = 0
    /\ yaw_offset = 0
    /\ roll_offset = 0
    /\ camera_id = 0
    /\ model = MODELS_WITH_DESCRIPTION[1]
    /\ visualize = FALSE
    /\ sock = <<>>
    /\ face_tracker_port \in EphemeralPorts
    /\ face_tracking_process =
          Some([args |-> face_tracking_process_args,
                state |-> "running", terminate_called |-> FALSE])
    /\ \E e \in DecoderEulers :
          buf = <<[id |-> 1, len |-> PACKET_SIZE, euler |-> e]>>
    /\ parsed = None
    /\ sent = <<>>
    /\ outcome = Nothing
    /\ discarded = {}
    /\ stop_requested_at = Nothing
    /\ waits_after_stop = 0
    /\ n_datagrams = 1
    /\ inputs = 2

\* Lines 136-140 applied to the packet: decode, derive the rotation, emit
\* it and send it.
DecoderNext ==
    \/ run_parse
    \/ run_emit_tracking
    \/ run_send_pitch
    \/ run_send_yaw
    \/ run_send_roll

DecoderSpec == DecoderInit /\ [][DecoderNext]_vars

\* The camera enumeration on its own: any output of at most MaxStdoutLines
\* lines and either exit code.
EnumerationInit == InitWith(EnumerationStdouts, EnumerationReturnCodes)

EnumerationNext ==
    \/ GetCamerasWorker_run
    \/ on_cameras_received

EnumerationSpec == EnumerationInit /\ [][EnumerationNext]_vars

---------------------------------------------------------------------------
(* Properties                                                              *)

\* The raw rotation of the packet the worker has decoded.
RawRotation == rotation(parsed[1].euler)

\* The addresses of the sends recorded in a sequence of send_message calls.
Addresses(msgs) == [i \in 1..Len(msgs) |-> msgs[i].address]

\* The tracker process has been spawned and terminate() was called on it.
TerminateCalled ==
    /\ face_tracking_process # None
    /\ face_tracking_process[1].terminate_called

\* C1: while the relay loop is Running no datagram makes it exit or abort;
\* the worker leaves the loop only for line 142, and only after a stop
\* request.
C1_LoopLeftOnlyAfterStop ==
    [][(pc \in LoopPcs /\ pc' \notin LoopPcs)
          => (pc' = "terminate" /\ stop_requested_at # Nothing)]_vars

\* C2: every buffer handed to the decoder has length exactly PACKET_SIZE.
C2_DecoderGetsExactSize ==
    pc = "parse" => BufLen(buf) = PACKET_SIZE

\* C3: the decoder fails for every buffer whose length differs from
\* PACKET_SIZE and yields a record only for that length.
C3_DecodeRejectsOtherLengths ==
    pc = "parse" =>
        ((parse_open_see_data(buf).raised = Nothing)
            <=> (BufLen(buf) = PACKET_SIZE))

\* The deliveries that a step has appended to the queue.
NewEvents == SubSeq(events', Len(events) + 1, Len(events'))

\* The step is line 137, the emission of the tracking signal.
IsTrackingEmission == pc = "emit" /\ pc' = "send_pitch"

\* C4 as claimed: the triple emitted to the on_tracking observer is the raw
\* rotation plus the current offsets.
C4_ObserverGetsCorrected ==
    [][IsTrackingEmission =>
          \A i \in 1..Len(NewEvents) :
              NewEvents[i].args = <<RawRotation[1] + pitch_offset,
                                    RawRotation[2] + yaw_offset,
                                    RawRotation[3] + roll_offset>>]_vars

\* C4 as amended: the triple emitted to the on_tracking observer, and handed
\* by the event loop to on_tracking_rotation_received, is the raw rotation
\* of the decoded packet, without the offsets.
C4_ObserverGetsRaw ==
    [][/\ IsTrackingEmission =>
             /\ Len(NewEvents) = connections
             /\ \A i \in 1..Len(NewEvents) :
                   NewEvents[i] = [signal |-> "tracking", args |-> RawRotation]
       /\ last_detected_rotation' # last_detected_rotation =>
             /\ Head(events).signal = "tracking"
             /\ last_detected_rotation' = Head(events).args
             /\ last_detected_rotation' = rotation(TrackedEuler)]_vars

\* C4's case: the tracking signal has just been emitted while an offset is
\* not zero.
C4_Witness ==
    /\ pc = "send_pitch"
    /\ pitch_offset # 0
    /\ events # <<>>
    /\ events[Len(events)] = [signal |-> "tracking", args |-> RawRotation]

\* The sends that an iteration of the loop has made, by where the worker is.
C5_SendsOfIteration ==
    /\ pc \in {"waiting", "recv", "parse", "emit", "send_pitch"} => sent = <<>>
    /\ pc = "send_yaw" => Addresses(sent) = <<"/SceneRotator/pitch">>
    /\ pc = "send_roll" =>
          Addresses(sent) = <<"/SceneRotator/pitch", "/SceneRotator/yaw">>
    /\ pc \in {"while", "select", "terminate", "emit_stopped", "finished",
               "raised"} =>
          IF outcome = "decoded"
          THEN Addresses(sent) = <<"/SceneRotator/pitch", "/SceneRotator/yaw",
                                   "/SceneRotator/roll">>
          ELSE sent = <<>>

\* Every send is made by one of the lines 138-140 and carries the raw
\* component plus the offset of its axis.
C5_SendStep ==
    (sent' # sent /\ sent' # <<>>) =>
        \/ /\ pc = "send_pitch"
           /\ sent' = Append(sent, [address |-> "/SceneRotator/pitch",
                                    value |-> RawRotation[1] + pitch_offset])
        \/ /\ pc = "send_yaw"
           /\ sent' = Append(sent, [address |-> "/SceneRotator/yaw",
                                    value |-> RawRotation[2] + yaw_offset])
        \/ /\ pc = "send_roll"
           /\ sent' = Append(sent, [address |-> "/SceneRotator/roll",
                                    value |-> RawRotation[3] + roll_offset])

\* C5: a decoded packet causes exactly three sends, to pitch, yaw and roll
\* in this order, each carrying the raw component plus that axis's offset;
\* an iteration that timed out, discarded a partial packet or raised sends
\* nothing.
C5_ThreeSendsPerPacket ==
    []C5_SendsOfIteration /\ [][C5_SendStep]_vars

\* C5's case: an iteration has decoded a packet and made its three sends
\* while the pitch offset was not zero.
C5_Witness ==
    /\ pc = "while"
    /\ outcome = "decoded"
    /\ Len(sent) = 3
    /\ pitch_offset # 0
    /\ sent[1].value = RawRotation[1] + pitch_offset

\* C6: a capture in a running session whose last raw rotation is r leaves
\* each offset equal to the negation of the corresponding component of r.
C6_CaptureNegatesRotation ==
    [][(/\ on_use_current_rotation_as_zero_clicked
        /\ isRunning
        /\ last_detected_rotation # None)
          => /\ pitch_offset' = -last_detected_rotation[1]
             /\ yaw_offset' = -last_detected_rotation[2]
             /\ roll_offset' = -last_detected_rotation[3]]_vars

\* C7: a stop() requested at any point after start() is not lost: while the
\* worker still runs the flag stays cleared, and when a worker that spawned
\* the tracker has ended, it has called terminate and emitted the stopped
\* signal (pc "finished").
C7_StopRequestNeverLost ==
    stop_requested_at # Nothing =>
        /\ isRunning => ~_should_run
        /\ (~isRunning /\ face_tracking_process # None) =>
              (pc = "finished" /\ TerminateCalled)

\* C8: after a stop() requested while the loop is Running the worker begins
\* at most one more readiness wait.
C8_AtMostOneWaitAfterStop ==
    stop_requested_at \in LoopPcs => waits_after_stop <= 1

\* C8's case: stop() came between the loop condition and the select call,
\* the wait timed out and the worker has left the loop.
C8_Witness ==
    /\ stop_requested_at = "select"
    /\ waits_after_stop = 1
    /\ outcome = "timeout"
    /\ pc = "terminate"

\* C9: when binding the socket or spawning the tracker fails, exactly one
\* error notification is delivered.
C9_StartFailureReportedOnce ==
    (pc = "raised" /\ face_tracking_process = None) => errors_emitted = 1

\* The step is a zero-length read that follows bytes already accumulated.
IsZeroReadMidAccumulation ==
    /\ pc = "recv"
    /\ buf # <<>>
    /\ sock # <<>>
    /\ Head(sock).len = 0
    /\ sock' = Tail(sock)

\* C10: a zero-length read during accumulation discards the accumulated
\* bytes: the step emits and sends nothing and produces no record, and no
\* buffer that is later decoded, emitted or sent contains any of them.
C10_ZeroReadDiscards ==
    /\ [](pc \in {"parse", "emit", "send_pitch", "send_yaw", "send_roll"}
            => ChunkIds(buf) \cap discarded = {})
    /\ [][IsZeroReadMidAccumulation =>
            /\ pc' = "while"
            /\ ChunkIds(buf) \subseteq discarded'
            /\ UNCHANGED <<events, sent, parsed>>]_vars

\* C10's case: after a discard, a later buffer is handed to the decoder.
C10_Witness ==
    /\ pc = "parse"
    /\ discarded # {}

\* The lengths of the chunks of a buffer or a socket queue, in order.
Lens(chunks) == [i \in 1..Len(chunks) |-> chunks[i].len]

\* All the traffic so far is one packet sent as two datagrams of lengths a
\* and PACKET_SIZE - a, or the first of the two while the second is still on
\* its way: every datagram sent is in buf or waiting in the socket, in order
\* of arrival.
IsFragmentPairTraffic ==
    /\ n_datagrams \in {1, 2}
    /\ Len(buf) + Len(sock) = n_datagrams
    /\ \A i \in 1..n_datagrams : (buf \o sock)[i].id = i
    /\ LET a == Lens(buf \o sock)[1]
       IN  /\ 0 < a /\ a < PACKET_SIZE
           /\ Lens(buf \o sock) = SubSeq(<<a, PACKET_SIZE - a>>, 1, n_datagrams)

\* C11: a packet that arrives as two datagrams of lengths a and
\* PACKET_SIZE - a, in order and with no other traffic, gives one decoded
\* record built from both in arrival order: the worker does not fail on
\* the first part, and what it decodes is the two parts concatenated.
C11_FragmentPairYieldsOneRecord ==
    (IsFragmentPairTraffic /\ face_tracking_process # None) =>
        /\ pc # "raised"
        /\ pc \in {"parse", "emit", "send_pitch", "send_yaw", "send_roll"} =>
              /\ Len(buf) = 2
              /\ BufLen(buf) = PACKET_SIZE

\* The rotation that C12 states for the Euler angles e.
C12_StatedRotation(e) ==
    LET p == -e[1] + Deg(180)
    IN  <<IF p <= Deg(180) THEN p ELSE p - Deg(360), e[2], e[3] - Deg(90)>>

\* C12: the rotation derived from the Euler angles (x, y, z) of a packet,
\* as the observer receives it, is (p, y, z - 90) with p = -x + 180 when
\* that is at most 180 and p = -x + 180 - 360 otherwise; (200, 10, 100)
\* gives (-20, 10, 10) and (400, 0, 90) gives (-220, 0, 0).
C12_RotationIsLiteralFormula ==
    \A i \in 1..Len(events) :
        events[i].signal = "tracking" =>
            /\ events[i].args = C12_StatedRotation(buf[1].euler)
            /\ buf[1].euler = <<Deg(200), Deg(10), Deg(100)>> =>
                  events[i].args = <<Deg(-20), Deg(10), Deg(10)>>
            /\ buf[1].euler = <<Deg(400), Deg(0), Deg(90)>> =>
                  events[i].args = <<Deg(-220), Deg(0), Deg(0)>>

\* C12's case: the rotation of a packet with x = 400 has been emitted, and
\* it is not the wrapped-around 140.
C12_Witness ==
    /\ buf[1].euler = <<Deg(400), Deg(0), Deg(90)>>
    /\ events = <<[signal |-> "tracking", args |-> <<Deg(-220), Deg(0), Deg(0)>>]>>

\* The step turns exactly the pitch, the yaw or the roll offset dial: one
\* valueChanged, hence one call of one setter.
IsPitchDialTurn ==
    /\ offset_pitch_dial' # offset_pitch_dial
    /\ UNCHANGED <<offset_yaw_dial, offset_roll_dial>>

IsYawDialTurn ==
    /\ offset_yaw_dial' # offset_yaw_dial
    /\ UNCHANGED <<offset_pitch_dial, offset_roll_dial>>

IsRollDialTurn ==
    /\ offset_roll_dial' # offset_roll_dial
    /\ UNCHANGED <<offset_pitch_dial, offset_yaw_dial>>

\* The step constructs a new FaceTrackingThread (line 377).
IsConstruction == face_tracking_thread' # face_tracking_thread

\* C13: a call of set_pitch_offset(f), set_yaw_offset(f) or
\* set_roll_offset(f) sets its own offset to f and leaves the other two and
\* the stop flag unchanged; an offset changes only by its setter (or is 0 in
\* a new object), so that whatever the interleaving, the relay reads the
\* initial 0 or the last value written.
C13_SettersIndependentLastWriteWins ==
    [][/\ (IsPitchDialTurn /\ face_tracking_thread # 0) =>
             /\ pitch_offset' = DialToOffset(offset_pitch_dial')
             /\ UNCHANGED <<yaw_offset, roll_offset, _should_run>>
       /\ (IsYawDialTurn /\ face_tracking_thread # 0) =>
             /\ yaw_offset' = DialToOffset(offset_yaw_dial')
             /\ UNCHANGED <<pitch_offset, roll_offset, _should_run>>
       /\ (IsRollDialTurn /\ face_tracking_thread # 0) =>
             /\ roll_offset' = DialToOffset(offset_roll_dial')
             /\ UNCHANGED <<pitch_offset, yaw_offset, _should_run>>
       /\ pitch_offset' # pitch_offset =>
             \/ IsConstruction /\ pitch_offset' = 0
             \/ /\ offset_pitch_dial' # offset_pitch_dial
                /\ pitch_offset' = DialToOffset(offset_pitch_dial')
       /\ yaw_offset' # yaw_offset =>
             \/ IsConstruction /\ yaw_offset' = 0
             \/ /\ offset_yaw_dial' # offset_yaw_dial
                /\ yaw_offset' = DialToOffset(offset_yaw_dial')
       /\ roll_offset' # roll_offset =>
             \/ IsConstruction /\ roll_offset' = 0
             \/ /\ offset_roll_dial' # offset_roll_dial
                /\ roll_offset' = DialToOffset(offset_roll_dial')
       /\ (pc = "send_pitch" /\ pc' = "send_yaw") =>
             sent'[Len(sent')].value = RawRotation[1] + pitch_offset
       /\ (pc = "send_yaw" /\ pc' = "send_roll") =>
             sent'[Len(sent')].value = RawRotation[2] + yaw_offset
       /\ (pc = "send_roll" /\ pc' = "while") =>
             sent'[Len(sent')].value = RawRotation[3] + roll_offset]_vars

\* C13's case: set_yaw_offset was called between the relay's read of the
\* pitch offset and its read of the yaw offset; the pitch was sent with the
\* initial 0, the yaw with the value written.
C13_Witness ==
    /\ pc = "send_roll"
    /\ Len(sent) = 2
    /\ pitch_offset = 0
    /\ yaw_offset = DialToOffset(250)
    /\ sent[1].value = RawRotation[1]
    /\ sent[2].value = RawRotation[2] + DialToOffset(250)

\* C14: a relay session starts with the three offsets at zero, whatever
\* they were in the session before and wherever the dials stand, and they
\* stay zero until a dial's valueChanged calls a setter (by the user's hand
\* or by the capture).
C14_SessionStartsWithZeroOffsets ==
    [][/\ IsConstruction => (pitch_offset' = 0 /\ yaw_offset' = 0 /\ roll_offset' = 0)
       /\ (/\ ~IsConstruction
           /\ UNCHANGED <<offset_pitch_dial, offset_yaw_dial, offset_roll_dial>>)
             => UNCHANGED offsetVars]_vars

\* C14's case: a second session has started with zero offsets after a
\* session in which the pitch offset dial was turned.
C14_Witness ==
    /\ face_tracking_thread = 2
    /\ connections = 2
    /\ pc = "bind"
    /\ offset_pitch_dial # 0
    /\ pitch_offset = 0
    /\ yaw_offset = 0
    /\ roll_offset = 0

\* The arguments that C15 states for the session of the current thread
\* object, bound to port.
C15_StatedArgs(port) ==
    IF visualize
    THEN <<"-c", camera_id, "-m", model, "-p", port, "-v", 1>>
    ELSE <<"-c", camera_id, "-m", model, "-p", port>>

\* C15: the tracker of a session is spawned only after the receive socket
\* is bound and its port read back, and its arguments are -c camera_id
\* -m model -p port, with the port of the receive socket, followed by -v 1
\* exactly when visualize is set.
C15_SpawnAfterBindWithSessionArgs ==
    /\ [](face_tracking_process # None =>
             /\ face_tracker_port \in EphemeralPorts
             /\ face_tracking_process[1].args = C15_StatedArgs(face_tracker_port)
             /\ model \in {MODELS_WITH_DESCRIPTION[i] :
                              i \in 1..Len(MODELS_WITH_DESCRIPTION)})
    /\ [][(face_tracking_process = None /\ face_tracking_process' # None) =>
             /\ pc = "spawn"
             /\ face_tracker_port \in EphemeralPorts
             /\ UNCHANGED face_tracker_port]_vars

\* C15's case: a tracker was spawned for the second camera, model tier 2
\* and with visualisation.
C15_Witness ==
    /\ face_tracking_process # None
    /\ face_tracking_process[1].args =
          <<"-c", 1, "-m", 2, "-p", face_tracker_port, "-v", 1>>
    /\ face_tracker_port # 0

\* The tracker process has ended without terminate() having been called.
TrackerExitedByItself ==
    /\ face_tracking_process # None
    /\ face_tracking_process[1].state = "exited"
    /\ ~face_tracking_process[1].terminate_called

\* C16: when the tracker process ends by itself while the relay loop is
\* Running, the stopped signal is eventually emitted (run() reaches its
\* end) without any stop request.
C16_TrackerExitLeadsToStopped ==
    (TrackerExitedByItself /\ pc \in LoopPcs /\ stop_requested_at = Nothing)
        ~> (pc = "finished" \/ stop_requested_at # Nothing)

\* The wire layout that C17 states: the fields of the record in wire order,
\* each with its size in bytes.
C17_WireLayout ==
    << [field |-> "time", size |-> 8],
       [field |-> "id", size |-> 4],
       [field |-> "camera_resolution", size |-> 8],
       [field |-> "right_eye_open", size |-> 4],
       [field |-> "left_eye_open", size |-> 4],
       [field |-> "got_3d_points", size |-> 1],
       [field |-> "fit_3d_error", size |-> 4],
       [field |-> "quaternion", size |-> 16],
       [field |-> "euler", size |-> 12],
       [field |-> "translation", size |-> 12],
       [field |-> "confidence", size |-> 272],
       [field |-> "points", size |-> 544],
       [field |-> "points3d", size |-> 840],
       [field |-> "open_see_features", size |-> 56] >>

\* First byte of entry i of the stated layout.
C17_WireStart(i) ==
    SumRange([j \in 1..Len(C17_WireLayout) |-> C17_WireLayout[j].size], 1, i - 1)

\* The bytes that read k takes from the packet: [first, end).
ReadFirst(k) == ReadOffsets[k]

ReadEnd(k) == ReadOffsets[k] + CalcSize(ReadFormats[k])

\* The reads that fill the record field of entry i of the stated layout.
C17_ReadsOfEntry(i) ==
    ReadsOfField(CHOOSE f \in 1..Len(OpenSeeDataFields) :
                    OpenSeeDataFields[f] = C17_WireLayout[i].field)

\* The reads of the decoder against the stated layout: the reads start at
\* byte 0, each begins where the one before ended, the last ends at byte
\* PACKET_SIZE, and the reads that fill a field are consecutive and take
\* exactly the bytes of that field.
C17_ReadsMatchLayout ==
    /\ Len(ReadFormats) = Len(ReadSizes)
    /\ Len(ReadLocals) = Len(ReadSizes)
    /\ ReadFirst(1) = 0
    /\ \A k \in 1..(Len(ReadFormats) - 1) : ReadFirst(k + 1) = ReadEnd(k)
    /\ ReadEnd(Len(ReadFormats)) = PACKET_SIZE
    /\ \A k \in 1..Len(ReadFormats) : ReadEnd(k) <= PACKET_SIZE
    /\ \A i \in 1..Len(C17_WireLayout) :
          LET ks == C17_ReadsOfEntry(i)
              lo == CHOOSE k \in ks : \A m \in ks : k <= m
              hi == CHOOSE k \in ks : \A m \in ks : k >= m
          IN  /\ ks # {}
              /\ hi - lo + 1 = Cardinality(ks)
              /\ ReadFirst(lo) = C17_WireStart(i)
              /\ ReadEnd(hi) = C17_WireStart(i) + C17_WireLayout[i].size
    /\ Cardinality(C17_ReadsOfEntry(11)) = 68
    /\ Cardinality(C17_ReadsOfEntry(12)) = 68
    /\ Cardinality(C17_ReadsOfEntry(13)) = 70
    /\ Cardinality(C17_ReadsOfEntry(14)) = 14

\* C17: decoding a packet of PACKET_SIZE bytes reads the fields in the wire
\* order time, id, camera_resolution, right_eye_open, left_eye_open,
\* got_3d_points, fit_3d_error, quaternion, euler, translation, confidence,
\* points, points3d, features without padding: the byte ranges read are
\* disjoint, contiguous and cover exactly [0, PACKET_SIZE), no read goes
\* past the end, each field is filled from its own range (68, 68, 70 and 14
\* entries for the arrays), and the Euler angles of the record are those
\* encoded in the packet.
C17_DecodeFollowsWireLayout ==
    parsed # None =>
        /\ C17_ReadsMatchLayout
        /\ parse_open_see_data(buf).raised = Nothing
        /\ parsed[1].euler = buf[1].euler

\* C17's case: a packet of PACKET_SIZE bytes has been decoded, and the
\* record holds its Euler angles.
C17_Witness ==
    /\ pc = "emit"
    /\ BufLen(buf) = PACKET_SIZE
    /\ parsed # None
    /\ parsed[1].euler = <<Deg(200), Deg(10), Deg(100)>>

\* The split of a line that ^(\d+): (.+)$ allows: n digits, a colon, a
\* blank, and at least one more token.
C18_IsSplit(line, n) ==
    /\ \A j \in 1..n : line[j] \in Digits
    /\ Len(line) >= n + 3
    /\ line[n + 1] = ":"
    /\ line[n + 2] = " "

C18_Matches(line) == \E n \in 1..Len(line) : C18_IsSplit(line, n)

\* The (integer id, name) pair of a matching line.
C18_Pair(line) ==
    LET n == CHOOSE n \in 1..Len(line) : C18_IsSplit(line, n)
    IN  <<PyInt(SubSeq(line, 1, n)), SubSeq(line, n + 3, Len(line))>>

\* The list that C18 states for an output given as its lines: the pairs of
\* the matching lines after the first line, in their order.
C18_StatedList(lines) ==
    LET matching == SelectSeq(AfterFirst(lines), C18_Matches)
    IN  [i \in 1..Len(matching) |-> C18_Pair(matching[i])]

\* The enumeration process has exited with code 0 and the worker has run.
EnumerationSucceeded ==
    get_cameras.pc = "finished" /\ get_cameras.returncode = 0

\* C18 as claimed: after an exit with code 0 the list emitted, and delivered
\* to the window, is the list of pairs of the matching lines of stdout after
\* its header line.
C18_ListIsMatchingLinesOfStdout ==
    EnumerationSucceeded =>
        /\ get_cameras.results = <<C18_StatedList(get_cameras.stdout)>>
        /\ cameras # None => cameras[1] = C18_StatedList(get_cameras.stdout)

\* C18 as amended: after an exit with code 0 exactly one list is emitted,
\* and delivered to the window: the list of pairs of the matching lines,
\* after the first line, of stdout with the whitespace at its start and at
\* its end stripped; it is the list of the matching lines of stdout itself
\* when stdout neither starts with a blank line or blank nor ends in
\* whitespace before its last line end.
C18_ListIsMatchingLinesOfStrippedStdout ==
    EnumerationSucceeded =>
        /\ get_cameras.results =
              <<C18_StatedList(StripSplitlines(get_cameras.stdout))>>
        /\ cameras # None =>
              cameras[1] = C18_StatedList(StripSplitlines(get_cameras.stdout))
        /\ StripSplitlines(get_cameras.stdout) = get_cameras.stdout =>
              get_cameras.results = <<C18_StatedList(get_cameras.stdout)>>

\* C18's case: the output "Available cameras:", "0: Integrated Webcam",
\* "garbage", "1: USB Camera" was scanned and the list of the two cameras
\* delivered to the window.
C18_Witness ==
    /\ EnumerationSucceeded
    /\ get_cameras.stdout =
          <<HeaderLine, WebcamLine, <<"garbage">>, UsbCameraLine>>
    /\ cameras = Some(<< <<0, <<"Integrated Webcam">>>>,
                         <<1, <<"USB Camera">>>> >>)

\* C19: when the enumeration process exits with a nonzero code the worker
\* emits exactly one error event and one result, the empty list, which the
\* window receives as its camera list.
C19_FailedEnumerationGivesEmptyResult ==
    (get_cameras.pc = "finished" /\ get_cameras.returncode # 0) =>
        /\ get_cameras.errors = 1
        /\ get_cameras.results = << <<>> >>
        /\ get_cameras.delivered = 1 => cameras = Some(<<>>)

\* The step is one of the worker's in an iteration whose readiness wait
\* times out: the loop condition found true, the call of select, or its
\* return with no socket ready.
IsStepOfTimedOutWait ==
    \/ pc = "while" /\ pc' = "select"
    \/ pc = "select" /\ pc' = "waiting"
    \/ pc = "waiting" /\ pc' = "while"

\* C20: an iteration whose readiness wait times out has no side effects:
\* it emits nothing to the observer, sends nothing to the sink, does not
\* call the decoder, does not signal the tracker process, and leaves the
\* offsets and the stop flag as they are; the iteration ends with nothing
\* sent.
C20_TimeoutHasNoSideEffects ==
    /\ [][IsStepOfTimedOutWait =>
             /\ UNCHANGED <<events, parsed, face_tracking_process, offsetVars,
                            _should_run, discarded, sock, errors_emitted>>
             /\ sent' \in {sent, <<>>}]_vars
    /\ []((pc = "while" /\ outcome = "timeout") => sent = <<>>)

\* C20's case: a wait has timed out in a session that decoded a packet
\* before, with an offset set and no stop requested.
C20_Witness ==
    /\ pc = "while"
    /\ outcome = "timeout"
    /\ parsed # None
    /\ pitch_offset # 0
    /\ _should_run
    /\ sent = <<>>

\* The step appends deliveries of the stopped signal to the queue.
IsStoppedEmission ==
    /\ Len(events') > Len(events)
    /\ events'[Len(events')].signal = "stopped"

\* C21: in a session the stopped signal is emitted by line 144 only, after
\* terminate() was called on the tracker process, and once: the emission
\* ends run(), and a worker that has emitted it emits no signal and sends
\* nothing any more.
C21_StoppedOnceAfterTerminateAndLast ==
    [][/\ IsStoppedEmission =>
             /\ pc = "emit_stopped"
             /\ pc' = "finished"
             /\ TerminateCalled
             /\ \A i \in 1..Len(NewEvents) : NewEvents[i].signal = "stopped"
       /\ pc = "finished" =>
             /\ Len(events') <= Len(events)
             /\ sent' = sent \/ (IsConstruction /\ sent' = <<>>)
             /\ pc' \in {"finished", "bind", "new"}
             /\ pc' # "finished" => IsConstruction]_vars

\* C21's case: a session that decoded a packet and made its sends has been
\* stopped: terminate() was called and the stopped signal is queued.
C21_Witness ==
    /\ pc = "finished"
    /\ TerminateCalled
    /\ outcome = "decoded"
    /\ Len(sent) = 3
    /\ events # <<>>
    /\ events[Len(events)].signal = "stopped"

\* C22: a worker that has spawned the tracker process and no longer runs,
\* by whatever path run() was left, has called terminate() on the process.
C22_NoExitWithoutTerminate ==
    (face_tracking_process # None /\ pc \in {"finished", "raised"}) =>
        face_tracking_process[1].terminate_called

\* C23: each emission of the worker, the stopped signal at a session's end
\* or the tracking signal for a decoded packet, queues exactly one
\* invocation of the window's handler, however many sessions were started
\* before.
C23_OneHandlerCallPerEvent ==
    [][((pc = "emit" /\ pc' = "send_pitch")
           \/ (pc = "emit_stopped" /\ pc' = "finished"))
          => Len(events') = Len(events) + 1]_vars

\* C24: while a relay session is running, each of its offsets is the value
\* that the corresponding offset dial shows (dial value / 10).
C24_OffsetsEqualDials ==
    isRunning =>
        /\ pitch_offset = DialToOffset(offset_pitch_dial)
        /\ yaw_offset = DialToOffset(offset_yaw_dial)
        /\ roll_offset = DialToOffset(offset_roll_dial)

====
